---- MODULE Spec2Model ----
(***************************************************************************)
(* Model of the monitor data archiver (package main, the version with the  *)
(* S3 upload).  HandleRequest fetches a batch of MonitorData, groups it by *)
(* MonitorId, starts one compileMonitorData goroutine per group, which     *)
(* starts one compileAndStoreinS3 goroutine per 5 minute slot.             *)
(*                                                                         *)
(* Instants are whole seconds counted from 2024-01-01T10:00:00Z, which is  *)
(* a multiple of FILE_DURATION since Go's zero time.                       *)
(***************************************************************************)
EXTENDS Bags, FiniteSets, Integers, Sequences, TLC

VARIABLES
    table,           \* the items the DynamoDB scan returns, already unmarshalled
    pc,              \* position of HandleRequest
    fetchErr,        \* whether fetchAllMonitorData returned an error
    monitorDataMap,  \* map[string][]MonitorData built by HandleRequest
    wg,              \* counter of HandleRequest's sync.WaitGroup
    task,            \* per MonitorId: the compileMonitorData goroutine
    files,           \* per MonitorId: the compileAndStoreinS3 goroutines it started
    puts,            \* bag of the PutObjectInput values handed to client.PutObject
    ret,             \* what HandleRequest returned
    cancelled        \* whether the ctx handed to HandleRequest is done

vars == <<table, pc, fetchErr, monitorDataMap, wg, task, files, puts, ret, cancelled>>

-----------------------------------------------------------------------------
(* Bounds and constants *)

MaxBatch == 3

\* The last instant for which the rounding is compared with the floor.
LastInstant == 1200

FILE_DURATION == 300

BUCKET_NAME == "lumi-monitor-data"

MonitorIds == {"m1", "m2"}

None == "none"

-----------------------------------------------------------------------------
(* time.Time: parsing, formatting, rounding *)

\* The RFC 3339 strings of the model that carry the zone offset +01:00; all
\* others end in Z.
PlusOne ==
    {"2024-01-01T11:00:00+01:00", "2024-01-01T11:02:30+01:00", "2024-01-01T11:05:00+01:00",
     "2024-01-01T11:07:10+01:00", "2024-01-01T11:10:00+01:00"}

\* time.Parse(time.RFC3339, s) for the strings of the model: the instant each denotes.
RFC3339 ==
    [s \in {"2024-01-01T10:00:00Z", "2024-01-01T10:02:30Z", "2024-01-01T10:04:00Z",
            "2024-01-01T10:05:00Z", "2024-01-01T10:07:10Z", "2024-01-01T10:10:00Z",
            "2024-01-01T10:15:00Z", "2024-01-01T10:20:00Z"} \cup PlusOne |->
        CASE s = "2024-01-01T10:00:00Z" -> 0
          [] s = "2024-01-01T11:00:00+01:00" -> 0
          [] s = "2024-01-01T11:02:30+01:00" -> 150
          [] s = "2024-01-01T11:05:00+01:00" -> 300
          [] s = "2024-01-01T11:07:10+01:00" -> 430
          [] s = "2024-01-01T11:10:00+01:00" -> 600
          [] s = "2024-01-01T10:02:30Z" -> 150
          [] s = "2024-01-01T10:04:00Z" -> 240
          [] s = "2024-01-01T10:05:00Z" -> 300
          [] s = "2024-01-01T10:07:10Z" -> 430
          [] s = "2024-01-01T10:10:00Z" -> 600
          [] s = "2024-01-01T10:15:00Z" -> 900
          [] s = "2024-01-01T10:20:00Z" -> 1200]

\* The zero time.Time, which time.Parse returns together with its error: an
\* instant that is a multiple of every duration and precedes every other one.
ZeroTime == 0 - FILE_DURATION

ParseTime(s) == IF s \in DOMAIN RFC3339 THEN RFC3339[s] ELSE ZeroTime

\* The Location of the time.Time that time.Parse returns for s: that of the
\* offset written in s, and UTC for the zero time of a failed parse.
LocationOf(s) == IF s \in PlusOne THEN "+01:00" ELSE "UTC"

\* t.Format(time.RFC3339) of the instant t held in location loc.
FormatTime(t, loc) ==
    IF \E s \in DOMAIN RFC3339 : RFC3339[s] = t /\ LocationOf(s) = loc
    THEN CHOOSE s \in DOMAIN RFC3339 : RFC3339[s] = t /\ LocationOf(s) = loc
    ELSE IF t = ZeroTime /\ loc = "UTC" THEN "0001-01-01T00:00:00Z" ELSE "unformatted"

\* t.Round(d): the nearest multiple of d, halfway values rounded up.
Round(t, d) ==
    LET r == t % d
    IN  IF r + r < d THEN t - r ELSE t + (d - r)

Before(t, u) == t < u

After(t, u) == t > u

-----------------------------------------------------------------------------
(* Inputs *)

Stamps == {"2024-01-01T10:00:00Z", "2024-01-01T10:02:30Z", "2024-01-01T10:04:00Z",
           "2024-01-01T10:05:00Z", "2024-01-01T10:07:10Z"}

MonitorData ==
    [MonitorId : MonitorIds, Timestamp : Stamps, OrgId : {"o1"}, Values : {"v1"}]

SeqsUpTo(S, n) == UNION {[1..k -> S] : k \in 0..n}

-----------------------------------------------------------------------------
(* HandleRequest *)

\* Mutant of GroupByMonitor: the record replaces the slice instead of being
\* appended to it.
RECURSIVE GroupByMonitorOverwrites(_, _)
GroupByMonitorOverwrites(all, m) ==
    IF all = <<>> THEN m
    ELSE LET data == Head(all)
             new  == [k \in DOMAIN m \cup {data.MonitorId} |->
                         IF k = data.MonitorId THEN <<data>> ELSE m[k]]
         IN  GroupByMonitorOverwrites(Tail(all), new)

\* Lines 73-77: append every record to the slice stored under its MonitorId.
RECURSIVE GroupByMonitor(_, _)
GroupByMonitor(all, m) ==
    IF all = <<>> THEN m
    ELSE LET data == Head(all)
             old  == IF data.MonitorId \in DOMAIN m THEN m[data.MonitorId] ELSE <<>>
             new  == [k \in DOMAIN m \cup {data.MonitorId} |->
                         IF k = data.MonitorId THEN Append(old, data) ELSE m[k]]
         IN  GroupByMonitor(Tail(all), new)

EmptyMap == [k \in {} |-> <<>>]

NoTask ==
    [pc |-> None, dataArray |-> <<>>, roundedDownStartTime |-> 0,
     roundedUpEndTime |-> 0, splitTime |-> 0, loc |-> "UTC", fileWg |-> 0]

\* The state as HandleRequest is entered, the scan having items of D to return.
InitOver(D) ==
    /\ table \in SeqsUpTo(D, MaxBatch)
    /\ pc = "start"
    /\ fetchErr = FALSE
    /\ monitorDataMap = EmptyMap
    /\ wg = 0
    /\ task = [e \in MonitorIds |-> NoTask]
    /\ files = [e \in MonitorIds |-> <<>>]
    /\ puts = EmptyBag
    /\ ret = None
    /\ cancelled = FALSE

Init == InitOver(MonitorData)

\* Lines 65-68: config.LoadDefaultConfig fails and log.Fatalf ends the process.
LoadConfigFatal ==
    /\ pc = "start"
    /\ pc' = "exited"
    /\ UNCHANGED <<cancelled, table, fetchErr, monitorDataMap, wg, task, files, puts, ret>>

\* Lines 72-77: fetchAllMonitorData returns the items, or nil and an error that
\* HandleRequest never reads; the records are then grouped.
FetchAndGroup ==
    /\ pc = "start"
    /\ \E failed \in BOOLEAN :
          LET allMonitorData == IF failed THEN <<>> ELSE table
          IN  /\ fetchErr' = failed
              /\ monitorDataMap' = GroupByMonitor(allMonitorData, EmptyMap)
    /\ pc' = "spawn"
    /\ UNCHANGED <<cancelled, table, wg, task, files, puts, ret>>

\* Lines 81-84: one iteration of the range over the map (in any order):
\* wg.Add(1) and go compileMonitorData(&wg, dataArray, s3Client).
StartMonitor(e) ==
    /\ pc = "spawn"
    /\ e \in DOMAIN monitorDataMap
    /\ task[e].pc = None
    /\ wg' = wg + 1
    /\ task' = [task EXCEPT ![e] = [NoTask EXCEPT !.pc = "sort",
                                                  !.dataArray = monitorDataMap[e]]]
    /\ UNCHANGED <<cancelled, table, pc, fetchErr, monitorDataMap, files, puts, ret>>

\* Mutant of WaitReturns: Wait returns without waiting for the counter.
WaitReturnsAtOnce(counter) == TRUE

\* sync.WaitGroup.Wait returns once the counter is zero.
WaitReturns(counter) == counter = 0

\* Lines 85-89: the range is over, wg.Wait() returns, HandleRequest returns.
Return ==
    /\ pc = "spawn"
    /\ \A e \in DOMAIN monitorDataMap : task[e].pc # None
    /\ WaitReturns(wg)
    /\ pc' = "returned"
    /\ ret' = [msg |-> "Hello", err |-> "nil"]
    /\ UNCHANGED <<cancelled, table, fetchErr, monitorDataMap, wg, task, files, puts>>

-----------------------------------------------------------------------------
(* compileMonitorData *)

Perms(n) == {p \in [1..n -> 1..n] : \A i, j \in 1..n : i # j => p[i] # p[j]}

\* The less function of lines 130-140.
Less(a, b) == Before(ParseTime(a.Timestamp), ParseTime(b.Timestamp))

\* sort.Slice gives some ordering of the slice in which no element is less
\* than an earlier one; it is not stable.
SortSlice(s) ==
    {t \in {[i \in 1..Len(s) |-> s[p[i]]] : p \in Perms(Len(s))} :
        \A i, j \in 1..Len(s) : i < j => ~Less(t[j], t[i])}

\* Mutant of RoundedDownStartTime: the step back after rounding up is missing.
RoundedToNearest(firstTimestamp) == Round(firstTimestamp, FILE_DURATION)

\* Lines 146-149.
RoundedDownStartTime(firstTimestamp) ==
    LET r == Round(firstTimestamp, FILE_DURATION)
    IN  IF After(r, firstTimestamp) THEN r - FILE_DURATION ELSE r

\* Lines 150-153.
RoundedUpEndTime(lastTimestamp) ==
    LET r == Round(lastTimestamp, FILE_DURATION)
    IN  IF Before(r, lastTimestamp) THEN r + FILE_DURATION ELSE r

\* Lines 130-155: sort, first and last timestamp, the rounded ends, splitTime.
\* The slice is sorted in place: dataArray shares its array with the slice
\* stored in monitorDataMap; the rounded times keep firstTimestamp's Location.
SortAndPlan(e) ==
    /\ task[e].pc = "sort"
    /\ \E sorted \in SortSlice(task[e].dataArray) :
          LET firstTimestamp == ParseTime(sorted[1].Timestamp)
              lastTimestamp  == ParseTime(sorted[Len(sorted)].Timestamp)
              startTime      == RoundedDownStartTime(firstTimestamp)
          IN  /\ task' = [task EXCEPT ![e] =
                          [pc |-> "loop", dataArray |-> sorted,
                           roundedDownStartTime |-> startTime,
                           roundedUpEndTime |-> RoundedUpEndTime(lastTimestamp),
                           splitTime |-> startTime + FILE_DURATION,
                           loc |-> LocationOf(sorted[1].Timestamp),
                           fileWg |-> 0]]
              /\ monitorDataMap' = [monitorDataMap EXCEPT ![e] = sorted]
    /\ UNCHANGED <<cancelled, table, pc, fetchErr, wg, files, puts, ret>>

\* Mutant of InSlot: the slot is closed at both ends.
InSlotClosed(currentTimestamp, slotStartTime, splitTime) ==
    ~Before(currentTimestamp, slotStartTime) /\ ~After(currentTimestamp, splitTime)

\* Line 164: the test that puts a record in the slot.
InSlot(currentTimestamp, slotStartTime, splitTime) ==
    After(currentTimestamp, slotStartTime) /\ Before(currentTimestamp, splitTime)

\* Lines 161-167.
SplitDataArray(dataArray, slotStartTime, splitTime) ==
    SelectSeq(dataArray,
              LAMBDA data : InSlot(ParseTime(data.Timestamp), slotStartTime, splitTime))

\* Line 171.
NextSplitTime(splitTime) == splitTime + FILE_DURATION

\* Lines 158-172: one iteration of the loop: the slot's records, fileWg.Add(1),
\* go compileAndStoreinS3(...), splitTime advanced.
StartFile(e) ==
    /\ task[e].pc = "loop"
    /\ ~After(task[e].splitTime, task[e].roundedUpEndTime)
    /\ LET splitTime     == task[e].splitTime
           slotStartTime == splitTime - FILE_DURATION
       IN  /\ files' = [files EXCEPT ![e] =
                  Append(@, [pc |-> "start",
                             splitDataArray |->
                                 SplitDataArray(task[e].dataArray, slotStartTime, splitTime),
                             slotStartTime |-> slotStartTime,
                             loc |-> task[e].loc,
                             ctx |-> None,
                             err |-> None])]
           /\ task' = [task EXCEPT ![e].fileWg = @ + 1,
                                   ![e].splitTime = NextSplitTime(splitTime)]
    /\ UNCHANGED <<cancelled, table, pc, fetchErr, monitorDataMap, wg, puts, ret>>

\* Lines 173-176 and the deferred wg.Done() of line 128: the loop is over,
\* fileWg.Wait() returns, the goroutine ends.
FinishMonitor(e) ==
    /\ task[e].pc = "loop"
    /\ After(task[e].splitTime, task[e].roundedUpEndTime)
    /\ WaitReturns(task[e].fileWg)
    /\ task' = [task EXCEPT ![e].pc = "done"]
    /\ wg' = wg - 1
    /\ UNCHANGED <<cancelled, table, pc, fetchErr, monitorDataMap, files, puts, ret>>

-----------------------------------------------------------------------------
(* compileAndStoreinS3 *)

\* Line 181.
IsEmpty(splitDataArray) == Len(splitDataArray) = 0

\* Mutant of Compile: the owner is taken from the last record of the slot.
CompileOwnerOfLast(splitDataArray, slotStartTime, loc) ==
    [MonitorId |-> splitDataArray[1].MonitorId,
     OrgId     |-> splitDataArray[Len(splitDataArray)].OrgId,
     StartTime |-> FormatTime(slotStartTime, loc),
     Entries   |-> [i \in 1..Len(splitDataArray) |->
                       [Timestamp |-> splitDataArray[i].Timestamp,
                        Values    |-> splitDataArray[i].Values]]]

\* Lines 185-202: the CompiledMonitorData of a non-empty slot.
Compile(splitDataArray, slotStartTime, loc) ==
    [MonitorId |-> splitDataArray[1].MonitorId,
     OrgId     |-> splitDataArray[1].OrgId,
     StartTime |-> FormatTime(slotStartTime, loc),
     Entries   |-> [i \in 1..Len(splitDataArray) |->
                       [Timestamp |-> splitDataArray[i].Timestamp,
                        Values    |-> splitDataArray[i].Values]]]

\* Line 205 with the json tags of lines 36-46 (Entry.Values is tagged "monitorId").
MarshalIndent(c) ==
    [monitorId |-> c.MonitorId,
     orgId     |-> c.OrgId,
     startTime |-> c.StartTime,
     entries   |-> [i \in 1..Len(c.Entries) |->
                       [timestamp |-> c.Entries[i].Timestamp,
                        monitorId |-> c.Entries[i].Values]]]

\* Line 206.
Filename(orgId, monitorId, slotStartTime, loc) ==
    orgId \o "/" \o monitorId \o "/" \o FormatTime(slotStartTime, loc) \o "-data.json"

\* Line 213: the context PutObject is called with.
PutContext == "context.TODO"

\* Lines 208-212.
PutObjectInput(splitDataArray, slotStartTime, loc) ==
    LET c == Compile(splitDataArray, slotStartTime, loc)
    IN  [Bucket |-> BUCKET_NAME,
         Key    |-> Filename(c.OrgId, c.MonitorId, slotStartTime, loc),
         Body   |-> MarshalIndent(c)]

\* Mutant of FileDone: a failed put also ends the monitor's goroutines that
\* have not yet started their own put.
FileDoneAbortsSiblings(e, i, err) ==
    LET aborted == IF err = "error"
                   THEN {j \in 1..Len(files[e]) : j # i /\ files[e][j].pc = "start"}
                   ELSE {}
    IN  /\ files' = [files EXCEPT ![e] =
               [j \in 1..Len(files[e]) |->
                   IF j = i THEN [files[e][j] EXCEPT !.pc = "done", !.err = err]
                   ELSE IF j \in aborted THEN [files[e][j] EXCEPT !.pc = "done"]
                   ELSE files[e][j]]]
        /\ task' = [task EXCEPT ![e].fileWg = @ - (1 + Cardinality(aborted))]

\* defer fileWg.Done() (line 179) as the goroutine of slot i ends with outcome err.
FileDone(e, i, err) ==
    /\ files' = [files EXCEPT ![e][i].pc = "done", ![e][i].err = err]
    /\ task' = [task EXCEPT ![e].fileWg = @ - 1]

\* Mutant of CompileAndPut: the test for an empty slot is missing.
CompileAndPutUnguarded(e, i) ==
    /\ i \in 1..Len(files[e])
    /\ files[e][i].pc = "start"
    /\ LET f     == files[e][i]
           input == IF IsEmpty(f.splitDataArray)
                    THEN [Bucket |-> BUCKET_NAME,
                          Key    |-> Filename("", e, f.slotStartTime, f.loc),
                          Body   |-> [monitorId |-> e, orgId |-> "",
                                      startTime |-> FormatTime(f.slotStartTime, f.loc),
                                      entries |-> <<>>]]
                    ELSE PutObjectInput(f.splitDataArray, f.slotStartTime, f.loc)
       IN  puts' = puts (+) SetToBag({input})
    /\ files' = [files EXCEPT ![e][i].pc = "put", ![e][i].ctx = PutContext]
    /\ task' = task
    /\ UNCHANGED <<cancelled, table, pc, fetchErr, monitorDataMap, wg, ret>>

\* Lines 179-213: an empty slot returns at once; otherwise the file is compiled
\* and client.PutObject is called.
CompileAndPut(e, i) ==
    /\ i \in 1..Len(files[e])
    /\ files[e][i].pc = "start"
    /\ IF IsEmpty(files[e][i].splitDataArray)
       THEN /\ FileDone(e, i, None)
            /\ puts' = puts
       ELSE /\ puts' = puts (+) SetToBag({PutObjectInput(files[e][i].splitDataArray,
                                                         files[e][i].slotStartTime,
                                                         files[e][i].loc)})
            /\ files' = [files EXCEPT ![e][i].pc = "put", ![e][i].ctx = PutContext]
            /\ task' = task
    /\ UNCHANGED <<cancelled, table, pc, fetchErr, monitorDataMap, wg, ret>>

\* Mutant of PutReturns: after an error the goroutine calls PutObject again.
PutReturnsRetries(e, i) ==
    /\ i \in 1..Len(files[e])
    /\ files[e][i].pc = "put"
    /\ \/ FileDone(e, i, "nil") /\ puts' = puts
       \/ /\ files' = [files EXCEPT ![e][i].err = "error"]
          /\ puts' = puts (+) SetToBag({PutObjectInput(files[e][i].splitDataArray,
                                                        files[e][i].slotStartTime,
                                                        files[e][i].loc)})
          /\ task' = task
    /\ UNCHANGED <<cancelled, table, pc, fetchErr, monitorDataMap, wg, ret>>

\* Lines 213-220: PutObject returns nil or an error; either way the outcome is
\* logged and the goroutine ends.
PutReturns(e, i) ==
    /\ i \in 1..Len(files[e])
    /\ files[e][i].pc = "put"
    /\ \E err \in {"nil", "error"} : FileDone(e, i, err)
    /\ UNCHANGED <<cancelled, table, pc, fetchErr, monitorDataMap, wg, puts, ret>>

-----------------------------------------------------------------------------

Next ==
    \/ LoadConfigFatal
    \/ FetchAndGroup
    \/ \E e \in MonitorIds : StartMonitor(e)
    \/ Return
    \/ \E e \in MonitorIds : SortAndPlan(e)
    \/ \E e \in MonitorIds : StartFile(e)
    \/ \E e \in MonitorIds : FinishMonitor(e)
    \/ \E e \in MonitorIds : \E i \in 1..Len(files[e]) : CompileAndPut(e, i)
    \/ \E e \in MonitorIds : \E i \in 1..Len(files[e]) : PutReturns(e, i)

Spec == Init /\ [][Next]_vars

\* Line 60: the ctx of the invocation is cancelled or its deadline passes, at
\* any moment before HandleRequest returns.
CancelContext ==
    /\ pc \in {"start", "spawn"}
    /\ ~cancelled
    /\ cancelled' = TRUE
    /\ UNCHANGED <<table, pc, fetchErr, monitorDataMap, wg, task, files, puts, ret>>

NextCancel ==
    \/ Next
    \/ CancelContext

\* One monitor's records, for the runs in which the context may be cancelled.
CancelData ==
    [MonitorId : {"m1"}, Timestamp : {"2024-01-01T10:02:30Z", "2024-01-01T10:07:10Z"},
     OrgId : {"o1"}, Values : {"v1"}]

SpecCancel == InitOver(CancelData) /\ [][NextCancel]_vars

\* One monitor's records, some sharing an instant while differing in values,
\* owner or zone offset.
TieData ==
    [MonitorId : {"m1"}, Timestamp : {"2024-01-01T10:02:30Z", "2024-01-01T10:07:10Z"},
     OrgId : {"o1", "o2"}, Values : {"v1", "v2"}]
        \cup {[MonitorId |-> "m1", Timestamp |-> "2024-01-01T11:02:30+01:00",
                OrgId |-> "o2", Values |-> "v2"]}

SpecTies == InitOver(TieData) /\ [][Next]_vars

\* Records of which some carry a Timestamp that is not RFC 3339.
BadData ==
    [MonitorId : MonitorIds,
     Timestamp : {"not-a-timestamp", "2024-01-01T10:02:30Z", "2024-01-01T10:07:10Z"},
     OrgId : {"o1"}, Values : {"v1"}]

SpecBad == InitOver(BadData) /\ [][Next]_vars

\* One monitor's records, written with different zone offsets and owners.
KeyData ==
    [MonitorId : {"m1"},
     Timestamp : {"2024-01-01T10:02:30Z", "2024-01-01T11:02:30+01:00", "2024-01-01T10:07:10Z"},
     OrgId : {"o1", "o2"}, Values : {"v1"}]

SpecKeys == InitOver(KeyData) /\ [][Next]_vars

-----------------------------------------------------------------------------
(* HandleRequest of src/main.go, whose compileMonitorData has an empty body *)

\* main.go lines 22-27: the records of that version, keyed by AlertId.
MainMonitorData ==
    [AlertId : MonitorIds, TimeStamp : Stamps, OrgId : {"o1"}, Values : {"v1"}]

\* main.go lines 54-58: append each record to the slice of its AlertId.
RECURSIVE MainGroupByAlert(_, _)
MainGroupByAlert(allMonitorData, m) ==
    IF allMonitorData = <<>> THEN m
    ELSE LET data == Head(allMonitorData)
             old  == IF data.AlertId \in DOMAIN m THEN m[data.AlertId] ELSE <<>>
         IN  MainGroupByAlert(Tail(allMonitorData),
                 [k \in DOMAIN m \cup {data.AlertId} |->
                     IF k = data.AlertId THEN Append(old, data) ELSE m[k]])

MainInit ==
    /\ table \in SeqsUpTo(MainMonitorData, MaxBatch)
    /\ pc = "start"
    /\ fetchErr = FALSE
    /\ monitorDataMap = EmptyMap
    /\ wg = 0
    /\ task = [e \in MonitorIds |-> NoTask]
    /\ files = [e \in MonitorIds |-> <<>>]
    /\ puts = EmptyBag
    /\ ret = None
    /\ cancelled = FALSE

\* main.go lines 46-49: config.LoadDefaultConfig fails and log.Fatalf ends
\* the process.
MainLoadConfigFatal ==
    /\ pc = "start"
    /\ pc' = "exited"
    /\ UNCHANGED <<cancelled, table, fetchErr, monitorDataMap, wg, task, files, puts, ret>>

\* main.go lines 53-58: the fetch, whose error is never read, and the grouping.
MainFetchAndGroup ==
    /\ pc = "start"
    /\ \E failed \in BOOLEAN :
          LET allMonitorData == IF failed THEN <<>> ELSE table
          IN  /\ fetchErr' = failed
              /\ monitorDataMap' = MainGroupByAlert(allMonitorData, EmptyMap)
    /\ pc' = "spawn"
    /\ UNCHANGED <<cancelled, table, wg, task, files, puts, ret>>

\* main.go lines 62-65: one iteration of the range over the map: wg.Add(1)
\* and go compileMonitorData(dataArray); the goroutine is not handed wg.
MainStartMonitor(e) ==
    /\ pc = "spawn"
    /\ e \in DOMAIN monitorDataMap
    /\ task[e].pc = None
    /\ wg' = wg + 1
    /\ task' = [task EXCEPT ![e] = [NoTask EXCEPT !.pc = "run",
                                                  !.dataArray = monitorDataMap[e]]]
    /\ UNCHANGED <<cancelled, table, pc, fetchErr, monitorDataMap, files, puts, ret>>

\* main.go lines 103-105: the goroutine runs the empty body and ends; wg is
\* neither in its scope nor touched.
MainCompileMonitorData(e) ==
    /\ task[e].pc = "run"
    /\ task' = [task EXCEPT ![e].pc = "done"]
    /\ UNCHANGED <<cancelled, table, pc, fetchErr, monitorDataMap, wg, files, puts, ret>>

\* main.go lines 66-70: the range is over, wg.Wait() returns, HandleRequest
\* prints the map and returns.
MainReturn ==
    /\ pc = "spawn"
    /\ \A e \in DOMAIN monitorDataMap : task[e].pc # None
    /\ WaitReturns(wg)
    /\ pc' = "returned"
    /\ ret' = [msg |-> "Hello", err |-> "nil"]
    /\ UNCHANGED <<cancelled, table, fetchErr, monitorDataMap, wg, task, files, puts>>

MainNext ==
    \/ MainLoadConfigFatal
    \/ MainFetchAndGroup
    \/ \E e \in MonitorIds : MainStartMonitor(e)
    \/ \E e \in MonitorIds : MainCompileMonitorData(e)
    \/ MainReturn

\* HandleRequest and every goroutine it started keep being scheduled.
MainFairness ==
    /\ WF_vars(MainLoadConfigFatal \/ MainFetchAndGroup)
    /\ \A e \in MonitorIds : WF_vars(MainStartMonitor(e))
    /\ \A e \in MonitorIds : WF_vars(MainCompileMonitorData(e))
    /\ WF_vars(MainReturn)

SpecMain == MainInit /\ [][MainNext]_vars /\ MainFairness

\* part_001 under the same scheduling: HandleRequest, every goroutine and
\* every PutObject call keep being scheduled, and the calls return.
Fairness ==
    /\ WF_vars(LoadConfigFatal \/ FetchAndGroup)
    /\ WF_vars(Return)
    /\ \A e \in MonitorIds :
          /\ WF_vars(StartMonitor(e))
          /\ WF_vars(SortAndPlan(e) \/ StartFile(e) \/ FinishMonitor(e))
          /\ WF_vars(\E i \in 1..Len(files[e]) : CompileAndPut(e, i) \/ PutReturns(e, i))

FairSpec == Spec /\ Fairness

-----------------------------------------------------------------------------
(* Vocabulary of the properties *)

\* floor(t / D) * D, the greatest multiple of FILE_DURATION that is <= t.
alignedStart(t) == t - (t % FILE_DURATION)

Count(s, r) == Cardinality({k \in 1..Len(s) : s[k] = r})

Range(s) == {s[k] : k \in 1..Len(s)}

\* The loop of compileMonitorData for e has ended: every slot has been handed over.
LoopOver(e) ==
    /\ task[e].pc \in {"loop", "done"}
    /\ After(task[e].splitTime, task[e].roundedUpEndTime)

\* How often record r occurs in the slots compileMonitorData(e) handed over.
RECURSIVE CountInFiles(_, _)
CountInFiles(fs, r) ==
    IF fs = <<>> THEN 0
    ELSE Count(Head(fs).splitDataArray, r) + CountInFiles(Tail(fs), r)

TimesOf(e) == {ParseTime(monitorDataMap[e][k].Timestamp) : k \in 1..Len(monitorDataMap[e])}

MinTs(e) == CHOOSE t \in TimesOf(e) : \A u \in TimesOf(e) : t <= u

MaxTs(e) == CHOOSE t \in TimesOf(e) : \A u \in TimesOf(e) : u <= t

SlotStarts(e) == [i \in 1..Len(files[e]) |-> files[e][i].slotStartTime]

\* The calls of PutObject whose file is that of monitor m and slot start st.
PutsFor(m, st) ==
    {p \in BagToSet(puts) : p.Body.monitorId = m /\ ParseTime(p.Body.startTime) = st}

RECURSIVE Copies(_)
Copies(S) ==
    IF S = {} THEN 0
    ELSE LET p == CHOOSE q \in S : TRUE IN CopiesIn(p, puts) + Copies(S \ {p})

PutCount(m, st) == Copies(PutsFor(m, st))

Started == {e \in MonitorIds : task[e].pc # None}

-----------------------------------------------------------------------------
(* Properties *)

\* C1: once compileMonitorData has handed over all its slots, every record of
\* the monitor's batch occurs in the slots exactly as often as in the batch:
\* each record is in exactly one slot, none is lost and none is duplicated.
C1_AssignPartitionsExactly ==
    \A e \in MonitorIds :
        LoopOver(e) =>
            /\ \A r \in Range(task[e].dataArray) :
                   CountInFiles(files[e], r) = Count(task[e].dataArray, r)
            /\ \A i \in 1..Len(files[e]) :
                   Range(files[e][i].splitDataArray) \subseteq Range(task[e].dataArray)

\* C2: a record is in the slot of window W iff W.start <= timestamp < W.end.
C2_HalfOpenMembership ==
    \A e \in MonitorIds : \A i \in 1..Len(files[e]) :
        \A k \in 1..Len(task[e].dataArray) :
            LET f  == files[e][i]
                ts == ParseTime(task[e].dataArray[k].Timestamp)
            IN  (task[e].dataArray[k] \in Range(f.splitDataArray))
                    <=> (f.slotStartTime <= ts /\ ts < f.slotStartTime + FILE_DURATION)

\* C3: the windows iterated are alignedStart(minTs), alignedStart(minTs) + D, ...
\* in ascending order, each of length D, the last one starting at alignedStart(maxTs).
C3_PlanCoversAlignedRange ==
    \A e \in MonitorIds :
        LoopOver(e) =>
            LET first == alignedStart(MinTs(e))
                n     == ((alignedStart(MaxTs(e)) + FILE_DURATION) - first) \div FILE_DURATION
            IN  SlotStarts(e) = [i \in 1..n |-> first + (i - 1) * FILE_DURATION]

\* C4: the loop runs at least once, and for a single record on an aligned
\* boundary t the one window iterated is [t, t + D).
C4_PlanHasAWindow ==
    \A e \in MonitorIds :
        LoopOver(e) =>
            /\ Len(files[e]) >= 1
            /\ (Len(task[e].dataArray) = 1 /\ alignedStart(MinTs(e)) = MinTs(e))
                   => SlotStarts(e) = <<MinTs(e)>>

\* C5: every PutObject call carries at least one entry, and a goroutine whose
\* slot is empty never calls PutObject.
C5_NoEmptyArtifact ==
    /\ \A p \in BagToSet(puts) : Len(p.Body.entries) > 0
    /\ \A e \in MonitorIds : \A i \in 1..Len(files[e]) :
           IsEmpty(files[e][i].splitDataArray) =>
               /\ files[e][i].pc \in {"start", "done"}
               /\ files[e][i].err = None
               /\ PutCount(e, files[e][i].slotStartTime) = 0

C5_Witness ==
    /\ pc = "returned"
    /\ puts # EmptyBag
    /\ \E e \in MonitorIds : \E i \in 1..Len(files[e]) :
           IsEmpty(files[e][i].splitDataArray) /\ files[e][i].pc = "done"

\* C6: PutObject is called at most once per (monitor, slot) at any time, a
\* failed call is not repeated, and when HandleRequest has returned it has been
\* called exactly once for every non-empty slot and for nothing else.
C6_PutOncePerSlot ==
    /\ \A p \in BagToSet(puts) :
           /\ CopiesIn(p, puts) = 1
           /\ \A q \in BagToSet(puts) :
                  (q.Body.monitorId = p.Body.monitorId
                       /\ q.Body.startTime = p.Body.startTime) => q = p
           /\ \E e \in Started : \E i \in 1..Len(files[e]) :
                  /\ ~IsEmpty(files[e][i].splitDataArray)
                  /\ p \in PutsFor(e, files[e][i].slotStartTime)
    /\ \A e \in MonitorIds : \A i \in 1..Len(files[e]) :
           files[e][i].err = "error" => PutCount(e, files[e][i].slotStartTime) = 1
    /\ pc = "returned" =>
           \A e \in DOMAIN monitorDataMap : \A i \in 1..Len(files[e]) :
               ~IsEmpty(files[e][i].splitDataArray)
                   => PutCount(e, files[e][i].slotStartTime) = 1

C6_Witness ==
    /\ pc = "returned"
    /\ \E e \in MonitorIds : \E i, j \in 1..Len(files[e]) :
           /\ i # j
           /\ files[e][i].err = "error"
           /\ files[e][j].err = "nil"

\* C7: when HandleRequest has returned and some put failed, every other
\* non-empty slot, of the same monitor and of every other monitor, was handed to
\* its goroutine and had its put called and answered; no slot of a started
\* monitor was left out.
C7_FailureIsolation ==
    (pc = "returned" /\ \E e \in MonitorIds : \E i \in 1..Len(files[e]) :
                            files[e][i].err = "error")
        => \A e \in DOMAIN monitorDataMap :
               /\ LoopOver(e)
               /\ Len(files[e]) =
                      (task[e].roundedUpEndTime - task[e].roundedDownStartTime)
                          \div FILE_DURATION
               /\ \A j \in 1..Len(files[e]) :
                      ~IsEmpty(files[e][j].splitDataArray) =>
                          /\ files[e][j].err \in {"nil", "error"}
                          /\ PutCount(e, files[e][j].slotStartTime) >= 1

C7_Witness ==
    /\ pc = "returned"
    /\ \E e1, e2 \in MonitorIds : \E i, j \in 1..Len(files[e1]) :
           /\ e1 # e2
           /\ i # j
           /\ files[e1][i].err = "error"
           /\ files[e1][j].err = "nil"
           /\ \E k \in 1..Len(files[e2]) : files[e2][k].err = "nil"

\* C8: if a PutObject call failed, what HandleRequest returns records a failure.
C8_SinkFailureSurfaced ==
    (pc = "returned" /\ \E e \in MonitorIds : \E i \in 1..Len(files[e]) :
                            files[e][i].err = "error")
        => ret.err # "nil"

\* C9: if fetchAllMonitorData returned an error, HandleRequest returns an error.
C9_SourceFailureSurfaced ==
    (pc = "returned" /\ fetchErr) => ret.err # "nil"

\* C10: a monitor's goroutine is done only when all its slot goroutines are
\* done, HandleRequest has returned only when all monitor goroutines are done,
\* and then no PutObject call is in flight.
C10_JoinBarrier ==
    /\ \A e \in MonitorIds :
           task[e].pc = "done" =>
               /\ LoopOver(e)
               /\ \A i \in 1..Len(files[e]) : files[e][i].pc = "done"
    /\ pc = "returned" =>
           /\ \A e \in DOMAIN monitorDataMap : task[e].pc = "done"
           /\ \A e \in MonitorIds : \A i \in 1..Len(files[e]) : files[e][i].pc # "put"

C10_Witness ==
    /\ pc = "returned"
    /\ Cardinality(DOMAIN monitorDataMap) = 2
    /\ \E e \in MonitorIds : Len(files[e]) = 2
    /\ BagCardinality(puts) >= 2

\* The records of monitor e in the order the scan returned them.
InputOf(T, e) == SelectSeq(T, LAMBDA d : d.MonitorId = e)

\* s ordered ascending by instant, records of equal instant in their order in s.
RECURSIVE StableSort(_)
StableSort(s) ==
    IF s = <<>> THEN <<>>
    ELSE LET x    == s[Len(s)]
             rest == StableSort(SubSeq(s, 1, Len(s) - 1))
             keep == SelectSeq(rest, LAMBDA d : ~Less(x, d))
             move == SelectSeq(rest, LAMBDA d : Less(x, d))
         IN  keep \o <<x>> \o move

EntriesOf(s) ==
    [k \in 1..Len(s) |-> [timestamp |-> s[k].Timestamp, monitorId |-> s[k].Values]]

\* C11: the entries of every file handed to PutObject ascend by instant, and
\* are those of the slot taken from the stable sort of the monitor's input
\* (entries of equal timestamp in input order).
C11_EntriesStableAscending ==
    \A e \in MonitorIds : \A i \in 1..Len(files[e]) :
        \A p \in PutsFor(e, files[e][i].slotStartTime) :
            /\ \A k, l \in 1..Len(p.Body.entries) :
                   k < l => ParseTime(p.Body.entries[k].timestamp)
                                <= ParseTime(p.Body.entries[l].timestamp)
            /\ p.Body.entries =
                   EntriesOf(SplitDataArray(StableSort(InputOf(table, e)),
                                            files[e][i].slotStartTime,
                                            files[e][i].slotStartTime + FILE_DURATION))

\* The orderings of the batch T.
OrderingsOf(T) == {[k \in 1..Len(T) |-> T[p[k]]] : p \in Perms(Len(T))}

\* The slot starts compileMonitorData iterates for the sorted slice s.
PlanOf(s) ==
    LET first == RoundedDownStartTime(ParseTime(s[1].Timestamp))
        last  == RoundedUpEndTime(ParseTime(s[Len(s)].Timestamp))
    IN  {st \in {first + k * FILE_DURATION : k \in 0..((last - first) \div FILE_DURATION)} :
            ~After(st + FILE_DURATION, last)}

\* The files a run of compileMonitorData hands to PutObject when the sort
\* leaves the slice as s.
ArtifactsOf(s) ==
    {PutObjectInput(SplitDataArray(s, st, st + FILE_DURATION), st,
                    LocationOf(s[1].Timestamp)) :
        st \in {u \in PlanOf(s) : ~IsEmpty(SplitDataArray(s, u, u + FILE_DURATION))}}

\* The files a run on batch T can produce for monitor e.
OutcomesOf(T, e) ==
    IF InputOf(T, e) = <<>> THEN {{}}
    ELSE {ArtifactsOf(s) : s \in SortSlice(InputOf(T, e))}

PutsOf(e) == {p \in BagToSet(puts) : p.Body.monitorId = e}

\* C12: when HandleRequest has returned, the files handed to PutObject for a
\* monitor are the ones every run on every ordering of the same batch hands
\* over: same files, same entry sequences.
C12_DeterministicUnderPermutation ==
    (pc = "returned" /\ ~fetchErr) =>
        \A e \in DOMAIN monitorDataMap :
            \A T \in OrderingsOf(table) :
                \A A \in OutcomesOf(T, e) : A = PutsOf(e)

Parseable(d) == d.Timestamp \in DOMAIN RFC3339

\* C13: a record whose timestamp does not parse is in no slot, and the windows
\* iterated for a monitor are those of its parseable records alone (none when
\* it has no parseable record), whatever the other monitors hold.
C13_InvalidRecordRejected ==
    \A e \in MonitorIds :
        LoopOver(e) =>
            LET valid == SelectSeq(task[e].dataArray, Parseable)
            IN  /\ \A i \in 1..Len(files[e]) :
                       \A d \in Range(files[e][i].splitDataArray) : Parseable(d)
                /\ Range(SlotStarts(e)) = IF valid = <<>> THEN {} ELSE PlanOf(valid)

\* The contexts derived from the ctx of the invocation.
DerivedFromCtx == {"ctx"}

\* C14: every PutObject call runs under a context derived from the ctx of the
\* invocation, no PutObject call is made once that ctx is cancelled, and no
\* call already made is undone.
C14_CancellationReachesPuts ==
    /\ [](\A e \in MonitorIds : \A i \in 1..Len(files[e]) :
             files[e][i].pc = "put" => files[e][i].ctx \in DerivedFromCtx)
    /\ [][cancelled => puts' = puts]_vars
    /\ [][\A p \in BagToSet(puts) : CopiesIn(p, puts') >= CopiesIn(p, puts)]_vars

WindowOf(p) == <<p.Body.monitorId, ParseTime(p.Body.startTime)>>

\* C15: within the invocation two calls for different (monitor, window) pairs
\* never share a key, and the key of a call is the key every invocation, on
\* whatever batch, uses for the same window of the same monitor.
C15_KeyStableCollisionFree ==
    \A p \in BagToSet(puts) :
        /\ \A q \in BagToSet(puts) : WindowOf(q) # WindowOf(p) => q.Key # p.Key
        /\ \A T \in SeqsUpTo(KeyData, MaxBatch) :
               \A A \in OutcomesOf(T, p.Body.monitorId) :
                   \A q \in A : WindowOf(q) = WindowOf(p) => q.Key = p.Key

\* No record is held by two goroutines that run concurrently: the slices of
\* two monitors share no record, a slot holds records of its own monitor only,
\* and no record of a monitor is in more slots than it occurs in the batch.
OwnDisjointData ==
    /\ \A e1, e2 \in MonitorIds :
           e1 # e2 => Range(task[e1].dataArray) \cap Range(task[e2].dataArray) = {}
    /\ \A e \in MonitorIds :
           /\ \A d \in Range(task[e].dataArray) :
                  /\ d.MonitorId = e
                  /\ CountInFiles(files[e], d) <= Count(task[e].dataArray, d)
           /\ \A i \in 1..Len(files[e]) :
                  Range(files[e][i].splitDataArray) \subseteq Range(task[e].dataArray)

\* A step that rewrites the array of monitor e's slice is the sort of e's own
\* goroutine, taken before any slot goroutine of e exists, and it leaves every
\* other monitor's slice and every slot as they are.
WritesOwnSliceOnly ==
    \A e \in DOMAIN monitorDataMap :
        monitorDataMap'[e] # monitorDataMap[e] =>
            /\ task[e].pc = "sort" /\ task'[e].pc = "loop"
            /\ files[e] = <<>>
            /\ files' = files
            /\ \A o \in DOMAIN monitorDataMap \ {e} :
                   monitorDataMap'[o] = monitorDataMap[o] /\ task'[o] = task[o]

\* A slot handed to a goroutine is never written again.
SlotsNeverRewritten ==
    \A e \in MonitorIds : \A i \in 1..Len(files[e]) :
        files'[e][i].splitDataArray = files[e][i].splitDataArray

\* C16: concurrently running goroutines hold disjoint records, and a slice is
\* written only by its own goroutine while no other goroutine holds it.
C16_TasksOwnDisjointData ==
    /\ []OwnDisjointData
    /\ [][WritesOwnSliceOnly /\ SlotsNeverRewritten]_vars

C16_Witness ==
    \E e1, e2 \in MonitorIds :
        /\ e1 # e2
        /\ Len(files[e1]) = 2
        /\ files[e1][1].pc = "put" /\ files[e1][2].pc = "put"
        /\ task[e2].pc = "sort"

Planned(e) == task[e].pc \in {"loop", "done"}

\* C17: the start computed for a monitor is the floor of its first timestamp,
\* and rounding then stepping back equals the floor for every instant from the
\* zero time to LastInstant.
C17_RoundedDownIsFloor ==
    /\ \A e \in MonitorIds :
           Planned(e) =>
               task[e].roundedDownStartTime
                   = alignedStart(ParseTime(task[e].dataArray[1].Timestamp))
    /\ pc = "start" =>
           \A t \in ZeroTime..LastInstant : RoundedDownStartTime(t) = alignedStart(t)

\* One monitor's first timestamp is exactly half a window past a boundary,
\* the other's more than half, and both were planned.
C17_Witness ==
    /\ Planned("m1") /\ Planned("m2")
    /\ task["m1"].dataArray[1].Timestamp = "2024-01-01T10:02:30Z"
    /\ task["m2"].dataArray[1].Timestamp = "2024-01-01T10:04:00Z"

\* What fetchAllMonitorData returned to HandleRequest.
Fetched == IF fetchErr THEN <<>> ELSE table

\* C18: once the batch is grouped, the keys of the map are the MonitorIds of
\* the batch, each group is non-empty and holds exactly the records of its key
\* (in batch order until it is sorted), goroutines are started for keys of the
\* map only, each with a non-empty slice and counted once in wg, for every key
\* by the time HandleRequest returns, and for none when the batch is empty.
C18_GroupingPartitionsByMonitor ==
    pc \in {"spawn", "returned"} =>
        /\ DOMAIN monitorDataMap = {Fetched[k].MonitorId : k \in 1..Len(Fetched)}
        /\ \A e \in DOMAIN monitorDataMap :
               /\ monitorDataMap[e] # <<>>
               /\ \A d \in Range(Fetched) :
                      Count(monitorDataMap[e], d)
                          = IF d.MonitorId = e THEN Count(Fetched, d) ELSE 0
               /\ Len(monitorDataMap[e]) = Len(InputOf(Fetched, e))
               /\ task[e].pc \in {None, "sort"} => monitorDataMap[e] = InputOf(Fetched, e)
        /\ Started \subseteq DOMAIN monitorDataMap
        /\ \A e \in Started : Len(task[e].dataArray) >= 1
        /\ wg = Cardinality({e \in Started : task[e].pc # "done"})
        /\ pc = "returned" => Started = DOMAIN monitorDataMap
        /\ Fetched = <<>> => Started = {}

C18_Witness ==
    /\ pc = "returned"
    /\ ~fetchErr
    /\ Len(table) = 3
    /\ table[1].MonitorId = "m1" /\ table[2].MonitorId = "m2" /\ table[3].MonitorId = "m1"
    /\ Len(monitorDataMap["m1"]) = 2 /\ Len(monitorDataMap["m2"]) = 1

\* C19: for every slot whose PutObject call has been made there is exactly one
\* file; its monitorId is the monitor of the goroutine and of every record of
\* the slot, its orgId the owner of the slot's first record, which no record
\* of the slot precedes in time, its startTime the instant the slot starts at,
\* its entries the (timestamp, values) of the slot's records in order, and
\* every entry's instant t satisfies startTime <= t < startTime + D.
C19_ArtifactFields ==
    \A e \in MonitorIds : \A i \in 1..Len(files[e]) :
        LET f == files[e][i]
            b == f.splitDataArray
        IN  (f.ctx # None) =>
                /\ Cardinality(PutsFor(e, f.slotStartTime)) = 1
                /\ \A p \in PutsFor(e, f.slotStartTime) :
                       /\ p.Body.monitorId = e
                       /\ \A d \in Range(b) : d.MonitorId = e
                       /\ p.Body.orgId = b[1].OrgId
                       /\ \A d \in Range(b) :
                              ParseTime(b[1].Timestamp) <= ParseTime(d.Timestamp)
                       /\ ParseTime(p.Body.startTime) = f.slotStartTime
                       /\ alignedStart(f.slotStartTime) = f.slotStartTime
                       /\ p.Body.entries = EntriesOf(b)
                       /\ \A k \in 1..Len(p.Body.entries) :
                              LET t == ParseTime(p.Body.entries[k].timestamp)
                              IN  /\ ParseTime(p.Body.startTime) <= t
                                  /\ t < ParseTime(p.Body.startTime) + FILE_DURATION

\* A file was put for a slot of two records of different owners, values and zones.
C19_Witness ==
    \E i \in 1..Len(files["m1"]) :
        LET b == files["m1"][i].splitDataArray
        IN  /\ files["m1"][i].err = "nil"
            /\ Len(b) = 2
            /\ b[1].OrgId # b[2].OrgId
            /\ b[1].Values # b[2].Values
            /\ LocationOf(b[1].Timestamp) = "+01:00"
            /\ LocationOf(b[2].Timestamp) = "UTC"

\* HandleRequest is over: it returned, or log.Fatalf ended the process.
Terminated == pc \in {"returned", "exited"}

\* C20: with HandleRequest, every started goroutine and every put scheduled
\* fairly, HandleRequest of src/main.go eventually returns for every fetched
\* batch, one with at least one entity included.
C20_HandleRequestReturns == <>Terminated

\* The same of HandleRequest of part_001, whose goroutines defer the Done.
PartReturns == <>Terminated

====
